---- MODULE Spec2Model ----
(***************************************************************************)
(* Model of course_admin.py: the peer-review workflow for course workbook  *)
(* submissions (random reviewer pairings, their JSON persistence, the      *)
(* forwarding of submissions, the reconciliation of returned reviews and   *)
(* the notification of members whose review did not come back).            *)
(*                                                                         *)
(* Python values are records tagged with their type, so that a tuple and a *)
(* list holding the same items are different values, as in Python:         *)
(*   str        [t |-> "str", s |-> "a@x.com"]                           *)
(*   None       [t |-> "NoneType"]                                        *)
(*   tuple      [t |-> "tuple", e |-> <<...>>]                            *)
(*   list       [t |-> "list",  e |-> <<...>>]                            *)
(* JSON values (the content of the pairings file) are tagged alike:        *)
(*   string     [j |-> "string", s |-> "a@x.com"]                        *)
(*   null       [j |-> "null"]                                            *)
(*   array      [j |-> "array", e |-> <<...>>]                            *)
(*                                                                         *)
(* A mail folder is modelled by the set of the senders of its messages     *)
(* (one message per sender, the message being identified by its sender).   *)
(***************************************************************************)
EXTENDS Integers, Sequences, FiniteSets, TLC

VARIABLES
    submissions,  \* senders of the messages in the folder of submitted workbooks
    reviews,      \* senders of the messages in the folder of returned reviews
    json_file,    \* content of the pairings file <workbook_title>.json, or Absent
    op,           \* the last operation run: its name, arguments, locals and outcome
    effects,      \* what the last operation did, in order: dump, forward, send, print
    forwarded,    \* TRUE once a send_workbooks_for_review call has forwarded the submissions
    call          \* the last call of a library function: its arguments and result

vars == <<submissions, reviews, json_file, op, effects, forwarded, call>>

----------------------------------------------------------------------------
(* Bounds of the model *)

\* Number of distinct participant email addresses.
MaxIds == 3

\* Longest hand-built pairings list given to find_pair_match.
MaxPairs == 2

----------------------------------------------------------------------------
(* Python and JSON values *)

PyStr(s) == [t |-> "str", s |-> s]

PyNone == [t |-> "NoneType"]

PyTuple(items) == [t |-> "tuple", e |-> items]

PyList(items) == [t |-> "list", e |-> items]

\* Python truth value testing, as used by `if not pers_b`.
Falsy(v) == v = PyNone \/ v = PyStr("")

EmailPool == <<"a@x.com", "b@x.com", "c@x.com", "d@x.com", "e@x.com">>

Ids == {PyStr(EmailPool[i]) : i \in 1..MaxIds}

\* An address that is the sender of no message.
Outsider == PyStr("staff@x.com")

\* The values a caller may pass as filler.
Fillers == Ids \cup {PyNone, Outsider}

Absent == [j |-> "absent"]

IsOdd(n) == n % 2 = 1

\* The position of an address in the pool: the order in which a folder lists its messages.
PoolIndex(v) == CHOOSE i \in 1..Len(EmailPool) : PyStr(EmailPool[i]) = v

RECURSIVE InFolderOrder(_)
InFolderOrder(S) ==
    IF S = {} THEN <<>>
    ELSE LET m == CHOOSE x \in S : \A y \in S : PoolIndex(x) <= PoolIndex(y)
         IN  <<m>> \o InFolderOrder(S \ {m})

\* The outcomes of random.shuffle on the keys of a dict: every permutation.
Shuffles(S) ==
    {sh \in [1..Cardinality(S) -> S] : \A i, k \in 1..Cardinality(S) : sh[i] = sh[k] => i = k}

----------------------------------------------------------------------------
(* Pairing engine *)

\* grouper that drops an incomplete last group, as zip(*[iter]*n) does.
grouper_zip(iterable, n, fillvalue) ==
    [k \in 1..(Len(iterable) \div n) |->
        PyTuple([i \in 1..n |-> iterable[(k - 1) * n + i]])]

\* grouper that pads with None whatever fillvalue is.
grouper_nofill(iterable, n, fillvalue) ==
    [k \in 1..((Len(iterable) + n - 1) \div n) |->
        PyTuple([i \in 1..n |->
            IF (k - 1) * n + i <= Len(iterable)
            THEN iterable[(k - 1) * n + i]
            ELSE PyNone])]

\* more_itertools.grouper(iterable, n, fillvalue): consecutive groups of n,
\* the last one padded with fillvalue.
grouper(iterable, n, fillvalue) ==
    [k \in 1..((Len(iterable) + n - 1) \div n) |->
        PyTuple([i \in 1..n |->
            IF (k - 1) * n + i <= Len(iterable)
            THEN iterable[(k - 1) * n + i]
            ELSE fillvalue])]

\* Pairs taken as a sliding window over the shuffled addresses.
create_random_pairings_window(submissions_, filler, shuffled) ==
    PyList([k \in 1..(IF Len(shuffled) = 0 THEN 0 ELSE IF Len(shuffled) = 1 THEN 1 ELSE Len(shuffled) - 1) |->
        PyTuple(<<shuffled[k], IF k + 1 <= Len(shuffled) THEN shuffled[k + 1] ELSE filler>>)])

\* create_random_pairings(submissions, filler); `shuffled` is the outcome of
\* random.shuffle on list(submissions.keys()).
create_random_pairings(submissions_, filler, shuffled) ==
    PyList(grouper(shuffled, 2, filler))

----------------------------------------------------------------------------
(* Reconciliation engine: partner lookup *)

RECURSIVE find_pair_match_from(_, _, _)
find_pair_match_from(email_a, pairs, i) ==
    IF i > Len(pairs) THEN PyNone
    ELSE LET pers_a == pairs[i].e[1]
             pers_b == pairs[i].e[2]
         IN  IF pers_a = email_a THEN pers_b
             ELSE IF pers_b = email_a THEN pers_a
             ELSE find_pair_match_from(email_a, pairs, i + 1)

RECURSIVE find_first_member_from(_, _, _)
find_first_member_from(email_a, pairs, i) ==
    IF i > Len(pairs) THEN PyNone
    ELSE IF pairs[i].e[1] = email_a THEN pairs[i].e[2]
    ELSE find_first_member_from(email_a, pairs, i + 1)

\* find_pair_match without the elif branch: only first members are looked up.
find_pair_match_first_only(email_a, pairings) ==
    find_first_member_from(email_a, pairings.e, 1)

\* find_pair_match(email_a, pairings): the other member of the first pairing
\* that holds email_a, None when no pairing holds it.
find_pair_match(email_a, pairings) ==
    find_pair_match_from(email_a, pairings.e, 1)

----------------------------------------------------------------------------
(* Persistence *)

RECURSIVE JsonEncode(_)
\* json.dump: str -> string, None -> null, list and tuple -> array.
JsonEncode(v) ==
    IF v.t = "str" THEN [j |-> "string", s |-> v.s]
    ELSE IF v.t = "NoneType" THEN [j |-> "null"]
    ELSE [j |-> "array", e |-> [i \in 1..Len(v.e) |-> JsonEncode(v.e[i])]]

RECURSIVE JsonDecode(_)
\* json.load: string -> str, null -> None, array -> list.
JsonDecode(x) ==
    IF x.j = "string" THEN PyStr(x.s)
    ELSE IF x.j = "null" THEN PyNone
    ELSE PyList([i \in 1..Len(x.e) |-> JsonDecode(x.e[i])])

\* json_dump_pairings that writes the pairs last to first.
json_dump_pairings_reversed(pairings) ==
    [j |-> "array", e |-> [i \in 1..Len(pairings.e) |-> JsonEncode(pairings.e[Len(pairings.e) + 1 - i])]]

\* json_dump_pairings(pairings, file_path): the content written to the file.
json_dump_pairings(pairings) == JsonEncode(pairings)

\* json_load_pairings(file_path): the value read from a file with content `content`.
json_load_pairings(content) == JsonDecode(content)

----------------------------------------------------------------------------
(* Calls of the library functions on their own *)

NoOp == [name |-> "none"]

NoCall == [fn |-> "none"]

\* No mail, no file, nothing run yet.
InitLibrary ==
    /\ submissions = {}
    /\ reviews = {}
    /\ json_file = Absent
    /\ op = NoOp
    /\ effects = <<>>
    /\ forwarded = FALSE
    /\ call = NoCall

\* create_random_pairings(submissions, filler) on any Members dict, any filler
\* and any outcome of the shuffle. One call is followed from the initial state.
CallCreateRandomPairings ==
    /\ call = NoCall
    /\ \E members \in SUBSET Ids, filler \in Fillers :
        \E shuffled \in Shuffles(members) :
            /\ call' = [fn |-> "create_random_pairings",
                        submissions |-> members,
                        filler |-> filler,
                        shuffled |-> shuffled,
                        raised |-> "nothing",
                        result |-> create_random_pairings(members, filler, shuffled)]
            /\ UNCHANGED <<submissions, reviews, json_file, op, effects, forwarded>>

\* json_dump_pairings(pairings, file_path) on the pairings just created.
CallJsonDumpPairings ==
    /\ call.fn = "create_random_pairings"
    /\ json_file' = json_dump_pairings(call.result)
    /\ call' = [fn |-> "json_dump_pairings", pairings |-> call.result]
    /\ UNCHANGED <<submissions, reviews, op, effects, forwarded>>

\* json_load_pairings(file_path) on the file just written.
CallJsonLoadPairings ==
    /\ call.fn = "json_dump_pairings"
    /\ json_file # Absent
    /\ call' = [fn |-> "json_load_pairings",
                dumped |-> call.pairings,
                result |-> json_load_pairings(json_file)]
    /\ UNCHANGED <<submissions, reviews, json_file, op, effects, forwarded>>

NextPairing ==
    \/ CallCreateRandomPairings
    \/ CallJsonDumpPairings
    \/ CallJsonLoadPairings

SpecPairing == InitLibrary /\ [][NextPairing]_vars

\* The values a pairing may hold.
Persons == Ids \cup {PyNone}

\* The sequences of at most n pairs, each pair a `kind` (tuple or list) of two Persons.
PairSeqs(kind, n) ==
    UNION {[1..len -> {[t |-> kind, e |-> <<a, b>>] : a \in Persons, b \in Persons}] : len \in 0..n}

\* The pairings lists handed to find_pair_match: lists of tuples (as created)
\* or lists of lists (as loaded from the file).
PairingsLists ==
    {PyList(ps) : ps \in PairSeqs("tuple", MaxPairs) \cup PairSeqs("list", MaxPairs)}

\* find_pair_match(email_a, pairings) on any value and any pairings list.
CallFindPairMatch ==
    /\ call = NoCall
    /\ \E email_a \in Persons \cup {Outsider}, pairings \in PairingsLists :
        /\ call' = [fn |-> "find_pair_match",
                    email_a |-> email_a,
                    pairings |-> pairings,
                    result |-> find_pair_match(email_a, pairings)]
        /\ UNCHANGED <<submissions, reviews, json_file, op, effects, forwarded>>

NextLookup ==
    \/ CallFindPairMatch

SpecLookup == InitLibrary /\ [][NextLookup]_vars

----------------------------------------------------------------------------
(* The workflow: the three operations on the mail account and the file *)

DumpEvent(content) == [ev |-> "dump", content |-> content]

ForwardEvent(msg, to) == [ev |-> "forward", msg |-> msg, to |-> to]

SendEvent(to, email) == [ev |-> "send", to |-> to, email |-> email]

PrintEvent(label, value) == [ev |-> "print", label |-> label, value |-> value]

\* What exchangelib does with an address that is None is not in the source:
\* it either raises, or accepts the call.
LibraryOutcomes == {"raises", "accepts"}

RECURSIVE ForwardPairings(_, _, _, _)
\* The loop of send_workbooks_for_review over random_pairings, from pair i on.
\* A pers_b that is no key of members (the None of an odd folder) ends the
\* loop with an exception: in target_folder.filter(sender=None) or in the
\* forward of msg_a if the library raises, else in members[pers_b] (KeyError),
\* after msg_a was forwarded to None.
ForwardPairings(pairs, i, members, lib) ==
    IF i > Len(pairs) THEN [effects |-> <<>>, status |-> "returned", exception |-> "none"]
    ELSE LET pers_a == pairs[i].e[1]
             pers_b == pairs[i].e[2]
             rest == ForwardPairings(pairs, i + 1, members, lib)
         IN  IF pers_b \in members
             THEN [effects |-> <<ForwardEvent(pers_a, pers_b),
                                 ForwardEvent(pers_b, pers_a),
                                 PrintEvent("Pairing", <<pers_a, pers_b>>)>> \o rest.effects,
                   status |-> rest.status,
                   exception |-> rest.exception]
             ELSE IF lib = "raises"
             THEN [effects |-> <<>>, status |-> "raised", exception |-> "exchangelib"]
             ELSE [effects |-> <<ForwardEvent(pers_a, pers_b)>>,
                   status |-> "raised", exception |-> "KeyError"]

\* send_workbooks_for_review on a folder whose senders are `members`.
send_workbooks_for_review(members, shuffled, test_print, lib) ==
    LET random_pairings == create_random_pairings(members, PyNone, shuffled)
        content == json_dump_pairings(random_pairings)
        loop == ForwardPairings(random_pairings.e, 1, members, lib)
        done == [name |-> "send_workbooks_for_review", test_print |-> test_print,
                 random_pairings |-> random_pairings]
    IN  IF ~test_print
        THEN [file |-> content,
              effects |-> <<DumpEvent(content)>> \o loop.effects,
              op |-> done @@ [status |-> loop.status, exception |-> loop.exception]]
        ELSE IF Len(random_pairings.e) = 0
        THEN [file |-> content,
              effects |-> <<PrintEvent("Target email folder", members), DumpEvent(content)>>,
              op |-> done @@ [status |-> "raised", exception |-> "IndexError"]]
        ELSE [file |-> content,
              effects |-> <<PrintEvent("Target email folder", members), DumpEvent(content),
                            PrintEvent("email_body", random_pairings.e[1].e[1])>>,
              op |-> done @@ [status |-> "returned", exception |-> "none"]]

SendWorkbooksForReview ==
    \E shuffled \in Shuffles(submissions), test_print \in BOOLEAN, lib \in LibraryOutcomes :
        LET r == send_workbooks_for_review(submissions, shuffled, test_print, lib) IN
        \* the library is asked about None only when a pair holds it
        /\ (~test_print /\ IsOdd(Cardinality(submissions))) \/ lib = "raises"
        /\ json_file' = r.file
        /\ op' = r.op
        /\ effects' = r.effects
        /\ forwarded' = (forwarded \/ (~test_print /\ r.op.status = "returned" /\ submissions # {}))
        /\ UNCHANGED <<submissions, reviews, call>>

RECURSIVE ReconcileLoop(_, _, _)
\* The loop of return_reviewed_notebooks over members.keys(), from member i on.
ReconcileLoop(order, i, pairings) ==
    IF i > Len(order)
    THEN [forwards |-> <<>>, members_receiving_emails |-> <<>>, no_matches |-> <<>>]
    ELSE LET member == order[i]
             pers_b == find_pair_match(member, pairings)
             rest == ReconcileLoop(order, i + 1, pairings)
         IN  IF Falsy(pers_b)
             THEN [rest EXCEPT !.no_matches = <<member>> \o @]
             ELSE [rest EXCEPT !.forwards = <<ForwardEvent(member, pers_b)>> \o @,
                               !.members_receiving_emails = <<pers_b>> \o @]

\* set(seq)
Range(seq) == {seq[i] : i \in 1..Len(seq)}

\* set([person for pairing in pairings for person in pairing])
AllMembers(pairings) ==
    {pairings.e[k].e[i] : k \in 1..Len(pairings.e), i \in {1, 2}}

\* return_reviewed_notebooks on a folder whose senders are `members`, with the
\* pairings file holding `content`.
return_reviewed_notebooks(members, content) ==
    IF content = Absent
    THEN [effects |-> <<>>,
          op |-> [name |-> "return_reviewed_notebooks", status |-> "raised",
                  exception |-> "FileNotFoundError"]]
    ELSE LET pairings == json_load_pairings(content)
             loop == ReconcileLoop(InFolderOrder(members), 1, pairings)
             all_members == AllMembers(pairings)
             happy_members == Range(loop.members_receiving_emails)
             unhappy_members == all_members \ happy_members
         IN  [effects |-> loop.forwards \o <<PrintEvent("Unhappy members: ", unhappy_members)>>,
              op |-> [name |-> "return_reviewed_notebooks", status |-> "returned",
                      exception |-> "none",
                      no_matches |-> loop.no_matches,
                      ret |-> unhappy_members]]

\* return_reviewed_notebooks that removes the pairings file once reconciled.
ReturnReviewedNotebooksUnlink ==
    LET r == return_reviewed_notebooks(reviews, json_file) IN
    /\ op' = r.op
    /\ effects' = r.effects
    /\ json_file' = Absent
    /\ UNCHANGED <<submissions, reviews, forwarded, call>>

ReturnReviewedNotebooks ==
    LET r == return_reviewed_notebooks(reviews, json_file) IN
    /\ op' = r.op
    /\ effects' = r.effects
    /\ UNCHANGED <<submissions, reviews, json_file, forwarded, call>>

\* The messages email_unhappy_members sends to the members in `order`.
Notifications(order, pairings) ==
    [i \in 1..Len(order) |-> SendEvent(order[i], find_pair_match(order[i], pairings))]

\* email_unhappy_members(unhappy_members, ...) with the pairings file holding
\* `content`. The set is iterated in an order Python chooses: when the library
\* raises on the member None, `before` are the members notified before it.
email_unhappy_members(unhappy_members, content, lib, before) ==
    LET pairings == IF content = Absent THEN PyList(<<>>) ELSE json_load_pairings(content)
        addresses == unhappy_members \ {PyNone}
        done == [name |-> "email_unhappy_members", unhappy_members |-> unhappy_members]
    IN  IF unhappy_members = {}
        THEN [effects |-> <<PrintEvent("No unhappy members :)", {})>>,
              op |-> done @@ [status |-> "returned", exception |-> "none"]]
        ELSE IF content = Absent
        THEN [effects |-> <<>>,
              op |-> done @@ [status |-> "raised", exception |-> "FileNotFoundError"]]
        ELSE IF PyNone \in unhappy_members /\ lib = "raises"
        THEN [effects |-> Notifications(InFolderOrder(before), pairings),
              op |-> done @@ [status |-> "raised", exception |-> "exchangelib"]]
        ELSE [effects |-> Notifications(
                    InFolderOrder(addresses)
                        \o (IF PyNone \in unhappy_members THEN <<PyNone>> ELSE <<>>),
                    pairings),
              op |-> done @@ [status |-> "returned", exception |-> "none"]]

\* The caller hands the set return_reviewed_notebooks returned to email_unhappy_members.
EmailUnhappyMembers ==
    /\ op.name = "return_reviewed_notebooks"
    /\ op.status = "returned"
    /\ \E lib \in LibraryOutcomes, before \in SUBSET (op.ret \ {PyNone}) :
        LET r == email_unhappy_members(op.ret, json_file, lib, before) IN
        /\ (PyNone \in op.ret /\ lib = "raises") \/ before = {}
        /\ op' = r.op
        /\ effects' = r.effects
        /\ UNCHANGED <<submissions, reviews, json_file, forwarded, call>>

\* The folders hold any messages when the scripts are run.
Init ==
    /\ submissions \in SUBSET Ids
    /\ reviews \in SUBSET Ids
    /\ json_file = Absent
    /\ op = NoOp
    /\ effects = <<>>
    /\ forwarded = FALSE
    /\ call = NoCall

Next ==
    \/ SendWorkbooksForReview
    \/ ReturnReviewedNotebooks
    \/ EmailUnhappyMembers

Spec == Init /\ [][Next]_vars

----------------------------------------------------------------------------
(* Properties of the library functions *)

\* The indices of the pairs of `pairings` that hold x.
PairsHolding(x, pairings) ==
    {k \in 1..Len(pairings.e) : pairings.e[k].e[1] = x \/ pairings.e[k].e[2] = x}

\* How many times x occurs in `pairings`, counting both positions of every pair.
Occurrences(x, pairings) ==
    Cardinality({kp \in (1..Len(pairings.e)) \X {1, 2} : pairings.e[kp[1]].e[kp[2]] = x})

CreatedPairings == call.fn = "create_random_pairings"

\* What C1 asks of a created partition: everyone in exactly one pair and once,
\* nobody paired with themselves, n/2 pairs for an even n.
CoversEveryoneOnce ==
    /\ \A x \in call.submissions :
        /\ Cardinality(PairsHolding(x, call.result)) = 1
        /\ Occurrences(x, call.result) = 1
    /\ \A k \in 1..Len(call.result.e) : call.result.e[k].e[1] # call.result.e[k].e[2]
    /\ (~IsOdd(Cardinality(call.submissions))
            => 2 * Len(call.result.e) = Cardinality(call.submissions))

\* C1 as stated: for every set of participants, every filler and every outcome
\* of the shuffle, every participant is in exactly one pair and exactly once,
\* no one is paired with themselves, and an even set gives |S|/2 pairs.
C1_EveryFiller ==
    CreatedPairings => CoversEveryoneOnce

\* C1, amended: the same, for a filler that is None or not one of the
\* participants, or an even number of participants (the filler is then unused).
C1_FillerNotAParticipant ==
    (CreatedPairings
        /\ (call.filler \notin call.submissions \/ ~IsOdd(Cardinality(call.submissions))))
    => CoversEveryoneOnce

C1_Witness ==
    /\ CreatedPairings
    /\ Cardinality(call.submissions) = 3
    /\ call.filler = Outsider
    /\ Len(call.result.e) = 2

OddWithoutFiller ==
    /\ CreatedPairings
    /\ IsOdd(Cardinality(call.submissions))
    /\ call.filler = PyNone

\* C2 as stated: an odd number of participants and no filler fails with
\* InvalidConfiguration, and no pair with None as second element is returned.
C2_RaisesInvalidConfiguration ==
    OddWithoutFiller =>
        /\ call.raised = "InvalidConfiguration"
        /\ \A k \in 1..Len(call.result.e) : call.result.e[k].e[2] # PyNone

\* C2, amended: an odd number of participants and no filler raises nothing and
\* returns (|S|+1)/2 pairs; the last pair holds the last shuffled participant
\* and None as its second element, and no other pair holds None.
C2_LastPairedWithNone ==
    OddWithoutFiller =>
        LET n == Len(call.result.e) IN
        /\ call.raised = "nothing"
        /\ 2 * n = Cardinality(call.submissions) + 1
        /\ call.result.e[n] = PyTuple(<<call.shuffled[Len(call.shuffled)], PyNone>>)
        /\ PairsHolding(PyNone, call.result) = {n}

C2_Witness ==
    /\ OddWithoutFiller
    /\ Cardinality(call.submissions) = 3
    /\ call.result.e[2].e[2] = PyNone

\* C3: with a filler that is not a participant, an odd set gives exactly one
\* pair holding the filler, as second element of the last pair, every other
\* element being a participant; an even set gives no pair holding the filler.
C3_FillerOnlyWhenOdd ==
    (CreatedPairings /\ call.filler \notin call.submissions) =>
        LET n == Len(call.result.e) IN
        IF IsOdd(Cardinality(call.submissions))
        THEN /\ PairsHolding(call.filler, call.result) = {n}
             /\ call.result.e[n].e[2] = call.filler
             /\ call.result.e[n].e[1] \in call.submissions
             /\ \A k \in 1..(n - 1) :
                    /\ call.result.e[k].e[1] \in call.submissions
                    /\ call.result.e[k].e[2] \in call.submissions
        ELSE PairsHolding(call.filler, call.result) = {}

C3_Witness ==
    /\ CreatedPairings
    /\ Cardinality(call.submissions) = 3
    /\ call.filler = Outsider
    /\ call.result.e[2].e[2] = Outsider

LookedUp == call.fn = "find_pair_match"

\* Every value occurs in at most one pairing.
InAtMostOnePairing(pairings) ==
    \A v \in Persons : Cardinality(PairsHolding(v, pairings)) <= 1

\* C5: in a partition where every identifier occurs in at most one pairing,
\* find_pair_match gives, for either member of a pairing at any position, the
\* other member, and None for a value that no pairing holds.
C5_LookupSymmetricAndTotal ==
    (LookedUp /\ InAtMostOnePairing(call.pairings)) =>
        /\ \A k \in 1..Len(call.pairings.e) :
            /\ call.pairings.e[k].e[1] = call.email_a => call.result = call.pairings.e[k].e[2]
            /\ call.pairings.e[k].e[2] = call.email_a => call.result = call.pairings.e[k].e[1]
        /\ PairsHolding(call.email_a, call.pairings) = {} => call.result = PyNone

C5_Witness ==
    /\ LookedUp
    /\ InAtMostOnePairing(call.pairings)
    /\ Len(call.pairings.e) = 2
    /\ call.pairings.e[2].e[2] = call.email_a
    /\ call.pairings.e[2].e[1] \in Ids \ {call.email_a}
    /\ call.result = call.pairings.e[2].e[1]

Reloaded == call.fn = "json_load_pairings"

\* C6 as stated: the value loaded from the file is equal to the partition that
\* was dumped, pair type included.
C6_RoundTripIdentity ==
    Reloaded => call.result = call.dumped

\* C6, amended: the value loaded is a list with as many pairs, in the same
\* order, each pair a list (no longer a tuple) of the same two elements.
C6_RoundTripTuplesBecomeLists ==
    Reloaded =>
        /\ call.result.t = "list"
        /\ Len(call.result.e) = Len(call.dumped.e)
        /\ \A k \in 1..Len(call.dumped.e) :
            /\ call.dumped.e[k].t = "tuple"
            /\ call.result.e[k] = PyList(call.dumped.e[k].e)

C6_Witness ==
    /\ Reloaded
    /\ Len(call.dumped.e) = 2
    /\ call.dumped.e[2].e[2] = PyNone
    /\ call.result.e[2].e[2] = PyNone

----------------------------------------------------------------------------
(* Properties of the workflow *)

Reconciled ==
    /\ op.name = "return_reviewed_notebooks"
    /\ op.status = "returned"

\* The partition read back from the pairings file.
PersistedPartition == json_load_pairings(json_file)

\* C4: the unhappy set returned by return_reviewed_notebooks is exactly the
\* set of those appearing in the persisted partition whose partner is not
\* among the senders of the folder.
C4_UnhappyIffPartnerSilent ==
    Reconciled =>
        op.ret = {x \in AllMembers(PersistedPartition) :
                    find_pair_match(x, PersistedPartition) \notin reviews}

\* The identifiers the operation reports as unmatched: what it prints under
\* another heading than the unhappy set (it returns the unhappy set alone).
SurfacedUnmatched ==
    UNION {effects[i].value : i \in {k \in 1..Len(effects) :
                /\ effects[k].ev = "print"
                /\ effects[k].label # "Unhappy members: "}}

\* C7: every identifier for which find_pair_match returned nothing during
\* reconciliation is reported to the caller as unmatched, apart from the
\* unhappy set.
C7_UnmatchedSurfaced ==
    Reconciled => \A m \in Range(op.no_matches) : m \in SurfacedUnmatched

SentForReview ==
    /\ op.name = "send_workbooks_for_review"
    /\ ~op.test_print

\* The positions in `effects` of the forwards of the message of sender s.
ForwardsOf(s) ==
    {i \in 1..Len(effects) : effects[i].ev = "forward" /\ effects[i].msg = s}

\* C8: send_workbooks_for_review with test_print=False runs to completion on
\* any folder, and every sender's submission is then forwarded exactly once,
\* to another sender of the folder who is their partner in the pairing the
\* call persisted, the pairing being persisted before the first forward.
C8_EverySubmissionForwardedOnce ==
    SentForReview =>
        /\ op.status = "returned"
        /\ \A s \in submissions :
            /\ Cardinality(ForwardsOf(s)) = 1
            /\ \A i \in ForwardsOf(s) :
                /\ effects[i].to \in submissions \ {s}
                /\ effects[i].to = find_pair_match(s, PersistedPartition)
                /\ \E d \in 1..(i - 1) : effects[d] = DumpEvent(json_file)

\* C9 as stated: once the pairings file is written and the submissions are
\* forwarded, no later operation changes the content of the file.
C9_FileNeverChangesOnceForwarded ==
    [][(forwarded /\ json_file # Absent) => json_file' = json_file]_vars

\* C9, amended: return_reviewed_notebooks and email_unhappy_members never
\* change the pairings file; every send_workbooks_for_review call, with
\* test_print True or False, writes the file anew with the pairing it drew.
C9_OnlySendWritesFile ==
    [][/\ op'.name \in {"return_reviewed_notebooks", "email_unhappy_members"}
            => json_file' = json_file
       /\ op'.name = "send_workbooks_for_review"
            => json_file' = JsonEncode(op'.random_pairings)]_vars

C9_Witness ==
    /\ forwarded
    /\ op.name = "email_unhappy_members"
    /\ json_file # Absent
    /\ Len(effects) > 0

\* C10: the unhappy set holds only real participants, never None, so that
\* email_unhappy_members notifies only real participants and names a real
\* participant as the reviewer in each notification.
C10_OnlyRealParticipantsNotified ==
    /\ Reconciled => op.ret \subseteq Ids
    /\ op.name = "email_unhappy_members" =>
        \A i \in 1..Len(effects) :
            effects[i].ev = "send" => (effects[i].to \in Ids /\ effects[i].email \in Ids)

====
